---- MODULE Spec2Model ----
(***************************************************************************)
(* Model of the scoring calculators of src/ForecastMetricsV3.jsx,          *)
(* calculateWIS (lines 56-75) and calculatePIS (lines 78-96), of the WIS   *)
(* panel that calls them (WISModule, lines 379-690), of the coverage bar   *)
(* (CoverageBar, lines 724-808) and of the tabs of the page (App, lines    *)
(* 939-1009, with the state of CoverageModule, lines 693-708).             *)
(*                                                                         *)
(* Number representation.  The source computes in IEEE doubles and renders *)
(* every numeric result field with Number.prototype.toFixed(1).  The model *)
(* computes in exact decimal fixed point:                                  *)
(*   - observed, median, lower, upper are integers counting tenths         *)
(*     (15 stands for 1.5);                                                *)
(*   - alpha is an integer counting hundredths (5 stands for 0.05);        *)
(*   - the WIS accumulators count 1/2000ths (a tenth times a hundredth     *)
(*     divided by two), so (upper - lower) * (alpha / 2) is the integer    *)
(*     (upper - lower) * alpha;                                            *)
(*   - a toFixed(1) string is the record [sign, n]: sign is "-" or "" and  *)
(*     n counts the tenths printed after it ("-0.3" is ["-", 3]).          *)
(* Binary representation error of doubles is not modelled: a double that   *)
(* the arithmetic leaves a hair off a value ending in 5 hundredths can     *)
(* print the other neighbouring tenth (0.15 + 1.5 prints "1.6"), and a sum *)
(* with negative terms that cancels to a hair below zero prints "-0.0".    *)
(* Comparisons, signs of non-zero values and roundings away from such ties *)
(* are the same in both arithmetics.  So are the comparisons of the WIS    *)
(* panel for every position of its two sliders, and the whole percentages  *)
(* of the coverage bar for every list of fewer than 40 flags (23 hits of   *)
(* 40 are 57.49999999999999 in doubles and print "57").                    *)
(***************************************************************************)
EXTENDS Integers, Sequences, FiniteSets, TLC

VARIABLES
  observed, median, intervals,  \* the arguments of calculateWIS
  wis,                          \* what calculateWIS returned
  lower, upper, alpha,          \* the further arguments of calculatePIS
  pis,                          \* what calculatePIS returned
  pc,                           \* "input", "returned", or "widened"; in the
                                \* WIS panel the last event: "mounted",
                                \* "observedSet" or "widthSet"; in the page
                                \* the last event, a tab switch telling
                                \* whether a panel was left with changed
                                \* state and is now shown again
  width,                        \* WISModule: the width slider, in percent
  pis95, pis50,                 \* WISModule: the memoised calculatePIS results
  hits,                         \* CoverageBar: its list of hit / miss flags
  coverage,                     \* CoverageBar: what it shows for them
  activeTab,                    \* App: the tab that is shown
  sampleSize, seed              \* CoverageModule: its slider and its counter

vars == <<observed, median, intervals, wis, lower, upper, alpha, pis, pc,
          width, pis95, pis50, hits, coverage, activeTab, sampleSize, seed>>

\* state of the WIS panel and of the coverage bar beyond the calculators'
panelVars == <<width, pis95, pis50>>
coverageVars == <<hits, coverage>>
\* state of the page around the panels
appVars == <<activeTab, sampleSize, seed>>

(* ------------------------------ bounds --------------------------------- *)

\* grid of input values: k * ValStep tenths for k in 0..MaxVal
MaxVal == 2
ValStep == 15
\* longest list of intervals handed to calculateWIS
MaxIntervals == 2
\* largest alpha (in hundredths) handed to calculatePIS
MaxAlpha == 100

Vals == {k * ValStep : k \in 0..MaxVal}

\* positions of the observed slider and of the width slider that are tried:
\* the ends of the range and ObsPoints - 1 (WidthPoints - 1) positions spread
\* evenly between them, besides the position the panel starts at
ObsPoints == 40
WidthPoints == 20
\* longest list of flags handed to the coverage bar (the page makes up to 50)
MaxSample == 12
\* positions of the sample-size slider that are tried, as for the other sliders
SamplePoints == 4
\* most clicks of Regenerate since the Coverage panel was mounted
MaxSeed == 3

(* --------------------------- program constants ------------------------- *)

\* alpha of the three intervals the WIS panel builds, in hundredths
Alpha95 == 5
Alpha80 == 20
Alpha50 == 50

\* the alpha of the i-th interval of a list, in the panel's order
PanelAlpha(i) == <<Alpha95, Alpha80, Alpha50>>[((i - 1) % 3) + 1]

\* WISModule: the fixed median and the start of the observed slider, in tenths
panelMedian == 20000
defaultObserved == 20000
\* the ends of the observed slider, in tenths
minVal == 12000
maxVal == 28000
\* the width slider: its start and its ends, in percent
defaultWidth == 100
minWidth == 30
maxWidth == 150
\* half the width of the 95%, 80% and 50% interval at width 100, in tenths
HalfWidth95 == 4000
HalfWidth80 == 2800
HalfWidth50 == 1600
\* CoverageModule: the fewest flags the sample-size slider asks for
MinSample == 10

\* CoverageModule: the start of the sample-size slider and of the seed, and
\* the most flags the slider asks for
defaultSampleSize == 20
defaultSeed == 0
maxSampleSize == 50
\* App: the tabs of TabNav and the one shown first
Tabs == {"overview", "intervals", "wis", "coverage"}
defaultTab == "overview"

\* value of the state of a component that is not mounted
Unmounted == [unmounted |-> TRUE]

\* value of a call that has not been made yet
NoResult == [none |-> TRUE]

Abs(x) == IF x < 0 THEN -x ELSE x

(* ------------------------------ toFixed(1) ----------------------------- *)

\* (num / den).toFixed(1), den > 0: a sign for a negative number, then the
\* multiple of a tenth nearest to the magnitude, the larger of two equally near
ToFixed1(num, den) ==
  [sign |-> IF num < 0 THEN "-" ELSE "",
   n    |-> (20 * Abs(num) + den) \div (2 * den)]

\* Number(s) of a toFixed(1) string, in tenths
Num(s) == IF s.sign = "-" THEN -s.n ELSE s.n

\* (num / den).toFixed(0), den > 0: the same with whole numbers, n counting ones
ToFixed0(num, den) ==
  [sign |-> IF num < 0 THEN "-" ELSE "",
   n    |-> (2 * Abs(num) + den) \div (2 * den)]

(* ----------------------------- calculateWIS ---------------------------- *)

(* variants of the forEach callback, each with one slip *)

\* the two penalties charged to each other's accumulator
WISStep_SwappedPenalties(acc, obs, iv) ==
  [dispersion      |-> acc.dispersion + (iv.upper - iv.lower) * iv.alpha,
   underprediction |-> IF obs > iv.upper
                       THEN acc.underprediction + (obs - iv.upper) * iv.alpha * 2
                       ELSE acc.underprediction,
   overprediction  |-> IF obs < iv.lower
                       THEN acc.overprediction + (iv.lower - obs) * iv.alpha * 2
                       ELSE acc.overprediction]

\* the width taken as lower - upper
WISStep_SwappedWidth(acc, obs, iv) ==
  [dispersion      |-> acc.dispersion + (iv.lower - iv.upper) * iv.alpha,
   underprediction |-> IF obs < iv.lower
                       THEN acc.underprediction + (iv.lower - obs) * iv.alpha * 2
                       ELSE acc.underprediction,
   overprediction  |-> IF obs > iv.upper
                       THEN acc.overprediction + (obs - iv.upper) * iv.alpha * 2
                       ELSE acc.overprediction]

\* the underprediction distance taken as observed - lower
WISStep_SignSlip(acc, obs, iv) ==
  [dispersion      |-> acc.dispersion + (iv.upper - iv.lower) * iv.alpha,
   underprediction |-> IF obs < iv.lower
                       THEN acc.underprediction + (obs - iv.lower) * iv.alpha * 2
                       ELSE acc.underprediction,
   overprediction  |-> IF obs > iv.upper
                       THEN acc.overprediction + (obs - iv.upper) * iv.alpha * 2
                       ELSE acc.overprediction]

\* the underprediction test made against the upper bound
WISStep_WrongBound(acc, obs, iv) ==
  [dispersion      |-> acc.dispersion + (iv.upper - iv.lower) * iv.alpha,
   underprediction |-> IF obs < iv.upper
                       THEN acc.underprediction + (iv.upper - obs) * iv.alpha * 2
                       ELSE acc.underprediction,
   overprediction  |-> IF obs > iv.upper
                       THEN acc.overprediction + (obs - iv.upper) * iv.alpha * 2
                       ELSE acc.overprediction]

\* the width taken as upper + lower
WISStep_SumWidth(acc, obs, iv) ==
  [dispersion      |-> acc.dispersion + (iv.upper + iv.lower) * iv.alpha,
   underprediction |-> IF obs < iv.lower
                       THEN acc.underprediction + (iv.lower - obs) * iv.alpha * 2
                       ELSE acc.underprediction,
   overprediction  |-> IF obs > iv.upper
                       THEN acc.overprediction + (obs - iv.upper) * iv.alpha * 2
                       ELSE acc.overprediction]

\* a negative width replaced by 0
WISStep_ClampedWidth(acc, obs, iv) ==
  [dispersion      |-> acc.dispersion + (IF iv.upper < iv.lower THEN 0 ELSE (iv.upper - iv.lower) * iv.alpha),
   underprediction |-> IF obs < iv.lower
                       THEN acc.underprediction + (iv.lower - obs) * iv.alpha * 2
                       ELSE acc.underprediction,
   overprediction  |-> IF obs > iv.upper
                       THEN acc.overprediction + (obs - iv.upper) * iv.alpha * 2
                       ELSE acc.overprediction]

\* the forEach callback: one interval added to the three accumulators
WISStep(acc, obs, iv) ==
  [dispersion      |-> acc.dispersion + (iv.upper - iv.lower) * iv.alpha,
   underprediction |-> IF obs < iv.lower
                       THEN acc.underprediction + (iv.lower - obs) * iv.alpha * 2
                       ELSE acc.underprediction,
   overprediction  |-> IF obs > iv.upper
                       THEN acc.overprediction + (obs - iv.upper) * iv.alpha * 2
                       ELSE acc.overprediction]

\* the accumulators after the first k intervals of ivs
RECURSIVE WISLoop(_, _, _)
WISLoop(obs, ivs, k) ==
  IF k = 0
  THEN [dispersion |-> 0, overprediction |-> 0, underprediction |-> 0]
  ELSE WISStep(WISLoop(obs, ivs, k - 1), obs, ivs[k])

\* variant of calculateWIS: the absolute error added to the total unhalved
calculateWIS_FullAbsError(obs, med, ivs) ==
  LET acc      == WISLoop(obs, ivs, Len(ivs))
      absError == Abs(obs - med)
  IN  [total           |-> ToFixed1(acc.dispersion + acc.overprediction
                                    + acc.underprediction + absError * 200, 2000),
       dispersion      |-> ToFixed1(acc.dispersion, 2000),
       overprediction  |-> ToFixed1(acc.overprediction, 2000),
       underprediction |-> ToFixed1(acc.underprediction, 2000),
       absError        |-> ToFixed1(absError, 10)]

\* variant of the result: total added up from the rounded components
calculateWIS_RoundedComponents(obs, med, ivs) ==
  LET acc      == WISLoop(obs, ivs, Len(ivs))
      absError == Abs(obs - med)
      d        == ToFixed1(acc.dispersion, 2000)
      o        == ToFixed1(acc.overprediction, 2000)
      u        == ToFixed1(acc.underprediction, 2000)
      e        == ToFixed1(absError, 10)
  IN  [total           |-> ToFixed1(2 * (Num(d) + Num(o) + Num(u)) + Num(e), 20),
       dispersion      |-> d,
       overprediction  |-> o,
       underprediction |-> u,
       absError        |-> e]

calculateWIS(obs, med, ivs) ==
  LET acc      == WISLoop(obs, ivs, Len(ivs))
      absError == Abs(obs - med)
  IN  [total           |-> ToFixed1(acc.dispersion + acc.overprediction
                                    + acc.underprediction + absError * 100, 2000),
       dispersion      |-> ToFixed1(acc.dispersion, 2000),
       overprediction  |-> ToFixed1(acc.overprediction, 2000),
       underprediction |-> ToFixed1(acc.underprediction, 2000),
       absError        |-> ToFixed1(absError, 10)]

(* ----------------------------- calculatePIS ---------------------------- *)

\* variant of the penalty: two separate ifs, each adding its penalty
PISPenalty_TwoIfs(obs, lo, up) ==
  (IF obs < lo THEN 20 * (lo - obs) ELSE 0)
  + (IF obs > up THEN 20 * (obs - up) ELSE 0)

\* variant of the penalty: the factor (1 / alpha) in place of (2 / alpha)
PISPenalty_HalfFactor(obs, lo, up) ==
  IF obs < lo THEN 10 * (lo - obs)
  ELSE IF obs > up THEN 10 * (obs - up)
  ELSE 0

\* penalty times alpha (in hundredths): (2 / alpha) * distance is
\* 20 * distance / alpha of one
PISPenalty(obs, lo, up) ==
  IF obs < lo THEN 20 * (lo - obs)
  ELSE IF obs > up THEN 20 * (obs - up)
  ELSE 0

\* variant of the flags: inside tested with strict inequalities
PISFlags_StrictInside(obs, lo, up) ==
  [outsideLower |-> obs < lo,
   outsideUpper |-> obs > up,
   inside       |-> obs > lo /\ obs < up]

\* variant of the flags: outsideUpper tested with >=
PISFlags_InclusiveUpper(obs, lo, up) ==
  [outsideLower |-> obs < lo,
   outsideUpper |-> obs >= up,
   inside       |-> obs >= lo /\ obs <= up]

\* the three flags of the result
PISFlags(obs, lo, up) ==
  [outsideLower |-> obs < lo,
   outsideUpper |-> obs > up,
   inside       |-> obs >= lo /\ obs <= up]

calculatePIS(obs, lo, up, a) ==
  LET span    == up - lo   \* the source's local width
      penalty == PISPenalty(obs, lo, up)
      flags   == PISFlags(obs, lo, up)
  IN  [width        |-> ToFixed1(span, 10),
       penalty      |-> ToFixed1(penalty, a),
       total        |-> ToFixed1(span * a + penalty * 10, 10 * a),
       outsideLower |-> flags.outsideLower,
       outsideUpper |-> flags.outsideUpper,
       inside       |-> flags.inside]

(* ------------------------------ WISModule ------------------------------ *)

\* variant of the intervals: the bounds of the 95% interval swapped
PanelIntervals_SwappedBounds95(w) ==
  <<[lower |-> panelMedian + (HalfWidth95 * w) \div 100,
     upper |-> panelMedian - (HalfWidth95 * w) \div 100, alpha |-> Alpha95],
    [lower |-> panelMedian - (HalfWidth80 * w) \div 100,
     upper |-> panelMedian + (HalfWidth80 * w) \div 100, alpha |-> Alpha80],
    [lower |-> panelMedian - (HalfWidth50 * w) \div 100,
     upper |-> panelMedian + (HalfWidth50 * w) \div 100, alpha |-> Alpha50]>>

\* variant of the intervals: the 80% interval built with half-width 480
PanelIntervals_Wide80(w) ==
  <<[lower |-> panelMedian - (HalfWidth95 * w) \div 100,
     upper |-> panelMedian + (HalfWidth95 * w) \div 100, alpha |-> Alpha95],
    [lower |-> panelMedian - (4800 * w) \div 100,
     upper |-> panelMedian + (4800 * w) \div 100, alpha |-> Alpha80],
    [lower |-> panelMedian - (HalfWidth50 * w) \div 100,
     upper |-> panelMedian + (HalfWidth50 * w) \div 100, alpha |-> Alpha50]>>

\* variant of the intervals: scale = (width - 100) / 100
PanelIntervals_ScaleFromDefault(w) ==
  <<[lower |-> panelMedian - (HalfWidth95 * (w - 100)) \div 100,
     upper |-> panelMedian + (HalfWidth95 * (w - 100)) \div 100, alpha |-> Alpha95],
    [lower |-> panelMedian - (HalfWidth80 * (w - 100)) \div 100,
     upper |-> panelMedian + (HalfWidth80 * (w - 100)) \div 100, alpha |-> Alpha80],
    [lower |-> panelMedian - (HalfWidth50 * (w - 100)) \div 100,
     upper |-> panelMedian + (HalfWidth50 * (w - 100)) \div 100, alpha |-> Alpha50]>>

\* the intervals built on every render: median -+ half-width * scale with
\* scale = width / 100 (every product is a whole number of tenths)
PanelIntervals(w) ==
  <<[lower |-> panelMedian - (HalfWidth95 * w) \div 100,
     upper |-> panelMedian + (HalfWidth95 * w) \div 100, alpha |-> Alpha95],
    [lower |-> panelMedian - (HalfWidth80 * w) \div 100,
     upper |-> panelMedian + (HalfWidth80 * w) \div 100, alpha |-> Alpha80],
    [lower |-> panelMedian - (HalfWidth50 * w) \div 100,
     upper |-> panelMedian + (HalfWidth50 * w) \div 100, alpha |-> Alpha50]>>

\* the arguments of the two calls of calculatePIS of a render: the 95% interval
\* with the literal 0.05 and the 50% interval with the literal 0.5
PISCalls(obs, ivs) ==
  <<[observed |-> obs, lower |-> ivs[1].lower, upper |-> ivs[1].upper,
     alpha |-> Alpha95],
    [observed |-> obs, lower |-> ivs[3].lower, upper |-> ivs[3].upper,
     alpha |-> Alpha50]>>

\* variant of the dependency list: [observed]
MemoDeps_ObservedOnly(obs, w) == <<obs>>

\* the dependency list of the three useMemo calls: [observed, width]
MemoDeps(obs, w) == <<obs, w>>

\* useMemo: the cached value while the dependencies are what they were at the
\* render that computed it, else the value computed afresh
useMemo(cached, fresh, oldDeps, newDeps) ==
  IF oldDeps = newDeps THEN cached ELSE fresh

\* variant of the tests: strict comparisons
InInterval_Strict(obs, iv) == obs > iv.lower /\ obs < iv.upper

\* in95 and in50: observed >= lower && observed <= upper
InInterval(obs, iv) == obs >= iv.lower /\ obs <= iv.upper

\* the status messages a render shows below the score breakdown
StatusMessages(obs, ivs) ==
  LET in95 == InInterval(obs, ivs[1])
      in50 == InInterval(obs, ivs[3])
  IN  (IF in95 /\ in50 THEN {"inside all intervals"} ELSE {})
      \cup (IF in95 /\ ~in50 THEN {"within 95% PI but outside 50%"} ELSE {})
      \cup (IF ~in95 /\ obs < ivs[1].lower
            THEN {"below 95% lower bound"} ELSE {})
      \cup (IF ~in95 /\ obs > ivs[1].upper
            THEN {"above 95% upper bound"} ELSE {})

\* the positions of the sliders that are tried (the sliders step by 1)
ObservedValues ==
  {minVal + 10 * ((k * ((maxVal - minVal) \div 10)) \div ObsPoints) :
     k \in 0..ObsPoints} \cup {defaultObserved}

WidthValues ==
  {minWidth + (k * (maxWidth - minWidth)) \div WidthPoints : k \in 0..WidthPoints}
    \cup {defaultWidth}

(* ----------------------------- CoverageBar ----------------------------- *)

\* variant of the count: the flags that are false
HitCount_Misses(h) == Len(SelectSeq(h, LAMBDA b : ~b))

\* hits.filter(Boolean).length
HitCount(h) == Len(SelectSeq(h, LAMBDA b : b))

\* what the bar computes from its props: coverage = (hitCount / total) * 100,
\* shown with toFixed(0), and isCalibrated = |coverage - target| < 15
CoverageBar(h, target) ==
  LET total    == Len(h)
      hitCount == HitCount(h)
  IN  [target       |-> target,
       shown        |-> ToFixed0(100 * hitCount, total),
       isCalibrated |-> Abs(100 * hitCount - target * total) < 15 * total]

\* the targets of the two bars of the page
Targets == {95, 50}

\* generateCoverage draws each flag from Math.sin of the seed and the index;
\* the sine is not modelled, and a generated list is any list of flags of a
\* length the sample-size slider can ask for
FlagLists == UNION { [1..n -> BOOLEAN] : n \in MinSample..MaxSample }

\* 20 flags with 19 hits, the miss in sixth place (where
\* generateCoverage(20, 0.95, 2) puts it)
ScenarioFlags == [i \in 1..20 |-> i # 6]

(* ------------------------- inputs of the calls ------------------------- *)

\* lists of at most MaxIntervals intervals over the grid, well-formed or not
IntervalLists ==
  UNION { { [i \in 1..n |-> [lower |-> b[i][1], upper |-> b[i][2],
                             alpha |-> PanelAlpha(i)]] :
            b \in [1..n -> Vals \X Vals] } : n \in 0..MaxIntervals }

\* calculateWIS(2000, 2000, [{lower:1600, upper:2400, alpha:0.05}])
ScenarioWIS ==
  [observed |-> 20000, median |-> 20000,
   intervals |-> <<[lower |-> 16000, upper |-> 24000, alpha |-> Alpha95]>>]

\* calculatePIS(1500, 1600, 2400, 0.05)
ScenarioPIS ==
  [observed |-> 15000, lower |-> 16000, upper |-> 24000, alpha |-> Alpha95]

\* calculatePIS(1599.9, 1600, 2400, 5): a tenth below the lower bound with an
\* alpha that makes (2 / alpha) * distance 0.04
ScenarioNearMiss ==
  [observed |-> 15999, lower |-> 16000, upper |-> 24000, alpha |-> 500]

(* --------------------- specification of calculateWIS ------------------- *)

\* the WIS panel and the coverage bar are not mounted
NoPanel == width = defaultWidth /\ pis95 = NoResult /\ pis50 = NoResult
NoCoverageBar == hits = <<>> /\ coverage = NoResult
\* the page shows its first tab, the Coverage panel is not mounted
NoApp == activeTab = defaultTab /\ sampleSize = Unmounted /\ seed = Unmounted

InitWIS ==
  /\ \/ /\ observed \in Vals
        /\ median \in Vals
        /\ intervals \in IntervalLists
     \/ /\ observed = ScenarioWIS.observed
        /\ median = ScenarioWIS.median
        /\ intervals = ScenarioWIS.intervals
  /\ wis = NoResult
  /\ lower = 0 /\ upper = 0 /\ alpha = Alpha95
  /\ pis = NoResult
  /\ pc = "input"
  /\ NoPanel /\ NoCoverageBar /\ NoApp

\* variant of the call: calculateWIS sorts the list it was handed in place,
\* widest interval last
CallWIS_SortsIntervals ==
  /\ pc = "input"
  /\ wis' = calculateWIS(observed, median, intervals)
  /\ intervals' =
       IF /\ Len(intervals) >= 2
          /\ intervals[1].upper - intervals[1].lower
               > intervals[2].upper - intervals[2].lower
       THEN [intervals EXCEPT ![1] = intervals[2], ![2] = intervals[1]]
       ELSE intervals
  /\ pc' = "returned"
  /\ UNCHANGED <<observed, median, lower, upper, alpha, pis>>
  /\ UNCHANGED <<panelVars, coverageVars, appVars>>

\* the call calculateWIS(observed, median, intervals)
CallWIS ==
  /\ pc = "input"
  /\ wis' = calculateWIS(observed, median, intervals)
  /\ pc' = "returned"
  /\ UNCHANGED <<observed, median, intervals, lower, upper, alpha, pis>>
  /\ UNCHANGED <<panelVars, coverageVars, appVars>>

\* the call repeated with interval i made wider and every other input as it was
Widen(i, lo, up) ==
  /\ pc = "returned"
  /\ i \in 1..Len(intervals)
  /\ up - lo > intervals[i].upper - intervals[i].lower
  /\ intervals' = [intervals EXCEPT ![i].lower = lo, ![i].upper = up]
  /\ wis' = calculateWIS(observed, median, intervals')
  /\ pc' = "widened"
  /\ UNCHANGED <<observed, median, lower, upper, alpha, pis>>
  /\ UNCHANGED <<panelVars, coverageVars, appVars>>

WidenSome == \E i \in 1..MaxIntervals, lo \in Vals, up \in Vals : Widen(i, lo, up)

NextWIS == CallWIS \/ WidenSome

SpecWIS == InitWIS /\ [][NextWIS]_vars

(* --------------------- specification of calculatePIS ------------------- *)

InitPIS ==
  /\ \/ /\ observed \in Vals
        /\ lower \in Vals
        /\ upper \in Vals
        /\ alpha \in 1..MaxAlpha
     \/ /\ observed = ScenarioPIS.observed
        /\ lower = ScenarioPIS.lower
        /\ upper = ScenarioPIS.upper
        /\ alpha = ScenarioPIS.alpha
     \/ /\ observed = ScenarioNearMiss.observed
        /\ lower = ScenarioNearMiss.lower
        /\ upper = ScenarioNearMiss.upper
        /\ alpha = ScenarioNearMiss.alpha
  /\ pis = NoResult
  /\ median = 0 /\ intervals = <<>> /\ wis = NoResult
  /\ pc = "input"
  /\ NoPanel /\ NoCoverageBar /\ NoApp

\* the call calculatePIS(observed, lower, upper, alpha)
CallPIS ==
  /\ pc = "input"
  /\ pis' = calculatePIS(observed, lower, upper, alpha)
  /\ pc' = "returned"
  /\ UNCHANGED <<observed, median, intervals, wis, lower, upper, alpha>>
  /\ UNCHANGED <<panelVars, coverageVars, appVars>>

NextPIS == CallPIS

SpecPIS == InitPIS /\ [][NextPIS]_vars

(* ---------------------- specification of WISModule -------------------- *)

\* a render with observed = obs and width = w: the intervals are built anew
\* and the three memoised results are taken from useMemo
Render(obs, w) ==
  LET ivs   == PanelIntervals(w)
      calls == PISCalls(obs, ivs)
      old   == MemoDeps(observed, width)
      new   == MemoDeps(obs, w)
  IN  /\ intervals' = ivs
      /\ wis' = useMemo(wis, calculateWIS(obs, median, ivs), old, new)
      /\ pis95' = useMemo(pis95,
                          calculatePIS(calls[1].observed, calls[1].lower,
                                       calls[1].upper, calls[1].alpha), old, new)
      /\ pis50' = useMemo(pis50,
                          calculatePIS(calls[2].observed, calls[2].lower,
                                       calls[2].upper, calls[2].alpha), old, new)

\* the panel after its first render
InitPanel ==
  /\ observed = defaultObserved
  /\ width = defaultWidth
  /\ median = panelMedian
  /\ intervals = PanelIntervals(width)
  /\ wis = calculateWIS(observed, median, intervals)
  /\ pis95 = LET c == PISCalls(observed, intervals)[1]
             IN  calculatePIS(c.observed, c.lower, c.upper, c.alpha)
  /\ pis50 = LET c == PISCalls(observed, intervals)[2]
             IN  calculatePIS(c.observed, c.lower, c.upper, c.alpha)
  /\ lower = 0 /\ upper = 0 /\ alpha = Alpha95
  /\ pis = NoResult
  /\ pc = "mounted"
  /\ NoCoverageBar
  /\ activeTab = "wis" /\ sampleSize = Unmounted /\ seed = Unmounted

\* the observed slider moved to v: setObserved(v) and the render it causes
SetObserved(v) ==
  /\ activeTab = "wis"
  /\ v # observed
  /\ observed' = v
  /\ width' = width
  /\ Render(v, width)
  /\ pc' = "observedSet"
  /\ UNCHANGED <<median, lower, upper, alpha, pis, coverageVars, appVars>>

\* the width slider moved to w: setWidth(w) and the render it causes
SetWidth(w) ==
  /\ activeTab = "wis"
  /\ w # width
  /\ width' = w
  /\ observed' = observed
  /\ Render(observed, w)
  /\ pc' = "widthSet"
  /\ UNCHANGED <<median, lower, upper, alpha, pis, coverageVars, appVars>>

SetObservedSome == \E v \in ObservedValues : SetObserved(v)

SetWidthSome == \E w \in WidthValues : SetWidth(w)

NextPanel == SetObservedSome \/ SetWidthSome

SpecPanel == InitPanel /\ [][NextPanel]_vars

(* ------------------- specification of both calculators ---------------- *)

\* either calculator called once, on the arguments of either specification
InitCalls == InitWIS \/ InitPIS

NextCalls == CallWIS \/ CallPIS

SpecCalls == InitCalls /\ [][NextCalls]_vars

(* --------------------- specification of CoverageBar -------------------- *)

InitCoverage ==
  /\ hits \in FlagLists \cup {ScenarioFlags}
  /\ coverage = NoResult
  /\ observed = 0 /\ median = 0 /\ intervals = <<>> /\ wis = NoResult
  /\ lower = 0 /\ upper = 0 /\ alpha = Alpha95
  /\ pis = NoResult
  /\ pc = "input"
  /\ NoPanel /\ NoApp

\* the bar rendered with the flags and a target
RenderCoverageBar(target) ==
  /\ pc = "input"
  /\ coverage' = CoverageBar(hits, target)
  /\ pc' = "returned"
  /\ UNCHANGED <<observed, median, intervals, wis, lower, upper, alpha, pis,
                 panelVars, hits, appVars>>

RenderCoverageBarSome == \E target \in Targets : RenderCoverageBar(target)

NextCoverage == RenderCoverageBarSome

SpecCoverage == InitCoverage /\ [][NextCoverage]_vars

(* -------------------------- specification of App ---------------------- *)

\* the list generateCoverage(n, target, s) returns, named by its arguments
\* (its flags come from Math.sin, which is not modelled); target in percent
generateCoverage(n, target, s) == [n |-> n, target |-> target, s |-> s]

\* hits95 and hits50 of a render of CoverageModule
GeneratedFlags(n, s) ==
  <<generateCoverage(n, 95, s), generateCoverage(n, 50, s + 1)>>

\* the positions of the sample-size slider that are tried
SampleSizes ==
  {MinSample + (k * (maxSampleSize - MinSample)) \div SamplePoints :
     k \in 0..SamplePoints} \cup {defaultSampleSize}

\* WISModule mounted: its useState defaults and its first render
MountWIS ==
  LET ivs   == PanelIntervals(defaultWidth)
      calls == PISCalls(defaultObserved, ivs)
  IN  /\ observed' = defaultObserved
      /\ width' = defaultWidth
      /\ median' = panelMedian
      /\ intervals' = ivs
      /\ wis' = calculateWIS(defaultObserved, panelMedian, ivs)
      /\ pis95' = calculatePIS(calls[1].observed, calls[1].lower,
                               calls[1].upper, calls[1].alpha)
      /\ pis50' = calculatePIS(calls[2].observed, calls[2].lower,
                               calls[2].upper, calls[2].alpha)

\* WISModule not rendered: its state is gone
UnmountWIS ==
  /\ observed' = Unmounted /\ width' = Unmounted /\ median' = Unmounted
  /\ intervals' = <<>>
  /\ wis' = NoResult /\ pis95' = NoResult /\ pis50' = NoResult

\* CoverageModule mounted: its useState defaults and its first render
MountCoverage ==
  /\ sampleSize' = defaultSampleSize
  /\ seed' = defaultSeed
  /\ hits' = GeneratedFlags(defaultSampleSize, defaultSeed)

\* CoverageModule not rendered: its state is gone
UnmountCoverage ==
  /\ sampleSize' = Unmounted /\ seed' = Unmounted
  /\ hits' = <<>>

\* pc after a switch to tab t: whether a panel was left with its sliders or
\* seed off their defaults, and whether t shows that panel again
AfterSwitch(t) ==
  LET left ==
        IF activeTab = "wis"
        THEN IF observed # defaultObserved \/ width # defaultWidth
             THEN "wisLeftChanged" ELSE "tabSet"
        ELSE IF activeTab = "coverage"
        THEN IF sampleSize # defaultSampleSize \/ seed # defaultSeed
             THEN "coverageLeftChanged" ELSE "tabSet"
        ELSE IF pc \in {"wisLeftChanged", "coverageLeftChanged"}
        THEN pc ELSE "tabSet"
  IN  IF t = "wis"
      THEN IF left = "wisLeftChanged" THEN "wisRemounted" ELSE "mounted"
      ELSE IF t = "coverage"
      THEN IF left = "coverageLeftChanged" THEN "coverageRemounted" ELSE "mounted"
      ELSE left

\* variant of the tab switch: a panel once mounted stays mounted while another
\* tab is shown, and keeps its state
SetActive_KeepsMounted(t) ==
  /\ t # activeTab
  /\ activeTab' = t
  /\ IF t = "wis" /\ wis = NoResult THEN MountWIS
     ELSE UNCHANGED <<observed, width, median, intervals, wis, pis95, pis50>>
  /\ IF t = "coverage" /\ hits = <<>> THEN MountCoverage
     ELSE UNCHANGED <<sampleSize, seed, hits>>
  /\ pc' = AfterSwitch(t)
  /\ UNCHANGED <<lower, upper, alpha, pis, coverage>>

\* a click on the tab t of TabNav: setActive(t) and the render of App, which
\* renders the module of the active tab and no other
SetActive(t) ==
  /\ t # activeTab
  /\ activeTab' = t
  /\ IF t = "wis" THEN MountWIS ELSE UnmountWIS
  /\ IF t = "coverage" THEN MountCoverage ELSE UnmountCoverage
  /\ pc' = AfterSwitch(t)
  /\ UNCHANGED <<lower, upper, alpha, pis, coverage>>

\* the sample-size slider moved to n: setSampleSize(n) and the render
SetSampleSize(n) ==
  /\ activeTab = "coverage"
  /\ n # sampleSize
  /\ sampleSize' = n
  /\ hits' = GeneratedFlags(n, seed)
  /\ pc' = "sampleSizeSet"
  /\ UNCHANGED <<observed, median, intervals, wis, lower, upper, alpha, pis,
                 panelVars, coverage, activeTab, seed>>

\* a click on Regenerate: setSeed(s => s + 1) and the render
Regenerate ==
  /\ activeTab = "coverage"
  /\ seed < MaxSeed
  /\ seed' = seed + 1
  /\ hits' = GeneratedFlags(sampleSize, seed + 1)
  /\ pc' = "regenerated"
  /\ UNCHANGED <<observed, median, intervals, wis, lower, upper, alpha, pis,
                 panelVars, coverage, activeTab, sampleSize>>

\* the page after its first render: the Overview tab, no panel mounted
InitApp ==
  /\ activeTab = defaultTab
  /\ observed = Unmounted /\ width = Unmounted /\ median = Unmounted
  /\ intervals = <<>>
  /\ wis = NoResult /\ pis95 = NoResult /\ pis50 = NoResult
  /\ sampleSize = Unmounted /\ seed = Unmounted
  /\ NoCoverageBar
  /\ lower = 0 /\ upper = 0 /\ alpha = Alpha95
  /\ pis = NoResult
  /\ pc = "tabSet"

SetActiveSome == \E t \in Tabs : SetActive(t)

SetSampleSizeSome == \E n \in SampleSizes : SetSampleSize(n)

NextApp ==
  \/ SetActiveSome
  \/ SetObservedSome
  \/ SetWidthSome
  \/ SetSampleSizeSome
  \/ Regenerate

SpecApp == InitApp /\ [][NextApp]_vars

(* ----------------------- vocabulary of the claims ---------------------- *)

\* s is num / den (den > 0) written to one decimal place: its sign, and the
\* tenth nearest to the magnitude, the upper one when two are equally near
Rounds(s, num, den) ==
  /\ s.sign = (IF num < 0 THEN "-" ELSE "")
  /\ s.n \in Nat
  /\ 2 * s.n * den - den <= 20 * Abs(num)
  /\ 20 * Abs(num) < 2 * s.n * den + den

\* s is exactly num / den
Exactly(s, num, den) == Num(s) * den = 10 * num

RECURSIVE SumFn(_, _)
SumFn(f, S) ==
  IF S = {} THEN 0
  ELSE LET x == CHOOSE x \in S : TRUE IN f[x] + SumFn(f, S \ {x})

\* the sums of the WIS definition over the current intervals, in 1/2000ths
DispersionSum ==
  SumFn([i \in DOMAIN intervals |->
           (intervals[i].upper - intervals[i].lower) * intervals[i].alpha],
        DOMAIN intervals)

UnderSum ==
  SumFn([i \in DOMAIN intervals |->
           IF observed < intervals[i].lower
           THEN 2 * (intervals[i].lower - observed) * intervals[i].alpha ELSE 0],
        DOMAIN intervals)

OverSum ==
  SumFn([i \in DOMAIN intervals |->
           IF observed > intervals[i].upper
           THEN 2 * (observed - intervals[i].upper) * intervals[i].alpha ELSE 0],
        DOMAIN intervals)

HalfAbsError == 100 * Abs(observed - median)

TotalSum == DispersionSum + OverSum + UnderSum + HalfAbsError

WellFormed == \A i \in DOMAIN intervals : intervals[i].lower <= intervals[i].upper

InScenarioWIS ==
  /\ observed = ScenarioWIS.observed
  /\ median = ScenarioWIS.median
  /\ intervals = ScenarioWIS.intervals

InScenarioPIS ==
  /\ observed = ScenarioPIS.observed
  /\ lower = ScenarioPIS.lower
  /\ upper = ScenarioPIS.upper
  /\ alpha = ScenarioPIS.alpha

(* -------------------------------- C1 ----------------------------------- *)

\* C1 as stated (here for well-formed intervals only): the fields calculateWIS
\* returns are exactly the sums of the
\* definition: dispersion = sum of (upper - lower) * (alpha / 2), underprediction
\* = sum of (lower - observed) * alpha over the intervals above observed,
\* overprediction = sum of (observed - upper) * alpha over the intervals below
\* it, absError = |observed - median| and total = their sum with absError halved.
C1_Original ==
  (wis # NoResult /\ WellFormed) =>
    /\ Exactly(wis.dispersion, DispersionSum, 2000)
    /\ Exactly(wis.underprediction, UnderSum, 2000)
    /\ Exactly(wis.overprediction, OverSum, 2000)
    /\ Exactly(wis.absError, Abs(observed - median), 10)
    /\ Exactly(wis.total, TotalSum, 2000)

\* C1 amended: each field calculateWIS returns is the sum of the definition
\* written to one decimal place (total from the unrounded sum), and the call of
\* the scenario returns dispersion 20.0, both penalties 0.0 and total 20.0.
C1_WISFields ==
  wis # NoResult =>
    /\ Rounds(wis.dispersion, DispersionSum, 2000)
    /\ Rounds(wis.underprediction, UnderSum, 2000)
    /\ Rounds(wis.overprediction, OverSum, 2000)
    /\ Rounds(wis.absError, Abs(observed - median), 10)
    /\ Rounds(wis.total, TotalSum, 2000)
    /\ InScenarioWIS =>
         /\ wis.dispersion = [sign |-> "", n |-> 200]
         /\ wis.overprediction = [sign |-> "", n |-> 0]
         /\ wis.underprediction = [sign |-> "", n |-> 0]
         /\ wis.absError = [sign |-> "", n |-> 0]
         /\ wis.total = [sign |-> "", n |-> 200]

\* a call with two well-formed intervals, one above and one below the observed
\* value, a median off the observed value and an underprediction that is not
\* a whole tenth
C1_Witness ==
  /\ wis # NoResult
  /\ WellFormed
  /\ Len(intervals) = 2
  /\ observed < intervals[1].lower
  /\ observed > intervals[2].upper
  /\ observed # median
  /\ ~Exactly(wis.underprediction, UnderSum, 2000)

(* -------------------------------- C2 ----------------------------------- *)

\* the penalty of the PIS definition as a fraction of one: numerator over alpha
PenaltyNum ==
  IF observed < lower THEN 20 * (lower - observed)
  ELSE IF observed > upper THEN 20 * (observed - upper)
  ELSE 0

\* C2 as stated (here for lower <= upper only): calculatePIS returns exactly width = upper - lower, penalty =
\* (2 / alpha) * (lower - observed) below the interval, (2 / alpha) * (observed
\* - upper) above it and 0 otherwise, and total = width + penalty.
C2_Original ==
  (pis # NoResult /\ lower <= upper) =>
    /\ Exactly(pis.width, upper - lower, 10)
    /\ Exactly(pis.penalty, PenaltyNum, alpha)
    /\ Exactly(pis.total, (upper - lower) * alpha + 10 * PenaltyNum, 10 * alpha)

\* C2 amended: each of width, penalty and total that calculatePIS returns is
\* the quantity of the definition written to one decimal place (total from the
\* unrounded width + penalty), and the call of the scenario returns width
\* 800.0, penalty 4000.0, total 4800.0 and outsideLower = true.
C2_PISFields ==
  pis # NoResult =>
    /\ Rounds(pis.width, upper - lower, 10)
    /\ Rounds(pis.penalty, PenaltyNum, alpha)
    /\ Rounds(pis.total, (upper - lower) * alpha + 10 * PenaltyNum, 10 * alpha)
    /\ InScenarioPIS =>
         /\ pis.width = [sign |-> "", n |-> 8000]
         /\ pis.penalty = [sign |-> "", n |-> 40000]
         /\ pis.total = [sign |-> "", n |-> 48000]
         /\ pis.outsideLower

\* a call with the observed value below a proper interval and an alpha that
\* makes the penalty fall between two tenths
C2_Witness ==
  /\ pis # NoResult
  /\ observed < lower
  /\ lower < upper
  /\ ~Exactly(pis.penalty, PenaltyNum, alpha)

(* -------------------------------- C3 ----------------------------------- *)

Count(b) == IF b THEN 1 ELSE 0

\* C3: for lower <= upper, exactly one of the flags outsideLower, outsideUpper
\* and inside that calculatePIS returns is true.
C3_ExactlyOneFlag ==
  (pis # NoResult /\ lower <= upper) =>
    Count(pis.outsideLower) + Count(pis.outsideUpper) + Count(pis.inside) = 1

\* a call with the observed value on the lower bound of a proper interval
C3_Witness ==
  /\ pis # NoResult
  /\ lower < upper
  /\ observed = lower
  /\ pis.inside

(* -------------------------------- C6 ----------------------------------- *)

\* C6: a call of calculatePIS with lower <= upper and the observed value on
\* either bound returns inside = true, outsideLower = outsideUpper = false and
\* a penalty of 0.
C6_BoundaryInside ==
  (pis # NoResult /\ lower <= upper /\ (observed = lower \/ observed = upper)) =>
    /\ pis.inside
    /\ ~pis.outsideLower
    /\ ~pis.outsideUpper
    /\ pis.penalty = [sign |-> "", n |-> 0]

\* a call with the observed value on the upper bound of a proper interval
C6_Witness ==
  /\ pis # NoResult
  /\ lower < upper
  /\ observed = upper
  /\ pis.total = pis.width

(* -------------------------------- C4 ----------------------------------- *)

\* the unrounded accumulators of calculateWIS on the current inputs
Acc == WISLoop(observed, intervals, Len(intervals))

AccTotal ==
  LET acc == Acc
  IN  acc.dispersion + acc.overprediction + acc.underprediction + HalfAbsError

\* the same two quantities on the inputs of the next state
AccNext == WISLoop(observed', intervals', Len(intervals'))

AccTotalNext ==
  LET acc == AccNext
  IN  acc.dispersion + acc.overprediction + acc.underprediction
        + 100 * Abs(observed' - median')

\* observed lies within interval i
Within(i) == intervals[i].lower <= observed /\ observed <= intervals[i].upper

\* a step of Widen: the only action that leaves pc = "returned"
WidenStep == pc = "returned" /\ pc' = "widened"

\* the interval a step has changed
Changed(i) == intervals'[i] # intervals[i]

\* observed lies within interval i of the next state
WithinNext(i) == intervals'[i].lower <= observed' /\ observed' <= intervals'[i].upper

\* C4 as stated, read of the unrounded quantities and of well-formed intervals:
\* making one interval wider with every other input fixed strictly increases
\* the dispersion and the total.
C4_Original ==
  [][(WidenStep /\ WellFormed /\ WellFormed') =>
       (AccNext.dispersion > Acc.dispersion /\ AccTotalNext > AccTotal)]_vars

\* C4 amended: making one interval wider with every other input fixed strictly
\* increases the unrounded dispersion and never lowers the dispersion returned;
\* when the observed value lies within that interval before and after the
\* change, the unrounded total strictly increases too and the total returned
\* is not lowered.
C4_WidenMonotone ==
  [][WidenStep =>
       /\ AccNext.dispersion > Acc.dispersion
       /\ Num(wis'.dispersion) >= Num(wis.dispersion)
       /\ (\E i \in DOMAIN intervals : Changed(i) /\ Within(i) /\ WithinNext(i)) =>
            /\ AccTotalNext > AccTotal
            /\ Num(wis'.total) >= Num(wis.total)]_vars

\* a result computed after a zero-width interval holding the observed value
\* was made wider around it
C4_Witness ==
  /\ pc = "widened"
  /\ Len(intervals) >= 1
  /\ intervals[1].lower < observed
  /\ observed < intervals[1].upper
  /\ Num(wis.dispersion) > 0
  /\ Num(wis.total) > Num(wis.dispersion)

(* -------------------------------- C5 ----------------------------------- *)

NonNegative(s) == s.sign = "" /\ Num(s) >= 0

\* C5: given intervals with lower <= upper (and alpha > 0), the five fields
\* calculateWIS returns are all non-negative.
C5_NonNegative ==
  (/\ wis # NoResult
   /\ WellFormed
   /\ \A i \in DOMAIN intervals : intervals[i].alpha > 0) =>
    /\ NonNegative(wis.total)
    /\ NonNegative(wis.dispersion)
    /\ NonNegative(wis.overprediction)
    /\ NonNegative(wis.underprediction)
    /\ NonNegative(wis.absError)

\* a call with well-formed intervals, one of them above the observed value
C5_Witness ==
  /\ wis # NoResult
  /\ WellFormed
  /\ Len(intervals) = 2
  /\ observed < intervals[2].lower
  /\ Num(wis.underprediction) > 0

(* -------------------------------- C7 ----------------------------------- *)

\* C7: an interval with the observed value strictly between its bounds leaves
\* the overprediction and the underprediction accumulator as they were.
C7_InsideAddsNothing ==
  wis # NoResult =>
    \A i \in DOMAIN intervals :
      (intervals[i].lower < observed /\ observed < intervals[i].upper) =>
        /\ WISLoop(observed, intervals, i).overprediction
             = WISLoop(observed, intervals, i - 1).overprediction
        /\ WISLoop(observed, intervals, i).underprediction
             = WISLoop(observed, intervals, i - 1).underprediction

\* a call whose second interval holds the observed value strictly inside,
\* after a first interval that charged a penalty
C7_Witness ==
  /\ wis # NoResult
  /\ Len(intervals) = 2
  /\ observed > intervals[1].upper
  /\ intervals[2].lower < observed
  /\ observed < intervals[2].upper
  /\ Num(wis.overprediction) > 0

(* -------------------------------- C8 ----------------------------------- *)

ZeroWidth == \A i \in DOMAIN intervals : intervals[i].lower = intervals[i].upper

\* C8 as stated: with observed = median and every interval of zero width, the
\* total is 0, also when a zero-width interval does not hold the observed value.
C8_Original ==
  (wis # NoResult /\ observed = median /\ ZeroWidth) =>
    wis.total = [sign |-> "", n |-> 0]

\* C8 amended: with observed = median and every interval of zero width at the
\* observed value (lower = upper = observed), the total is 0.
C8_ZeroTotal ==
  (/\ wis # NoResult
   /\ observed = median
   /\ \A i \in DOMAIN intervals :
        intervals[i].lower = observed /\ intervals[i].upper = observed) =>
    wis.total = [sign |-> "", n |-> 0]

\* a call with two zero-width intervals at an observed value that is the median
C8_Witness ==
  /\ wis # NoResult
  /\ observed = median
  /\ observed > 0
  /\ Len(intervals) = 2
  /\ \A i \in DOMAIN intervals :
       intervals[i].lower = observed /\ intervals[i].upper = observed

(* -------------------------------- C9 ----------------------------------- *)

\* C9 as stated: with no intervals the call returns dispersion, overprediction
\* and underprediction 0 and a total of exactly 0.5 * |observed - median|.
C9_Original ==
  (wis # NoResult /\ intervals = <<>>) =>
    /\ wis.dispersion = [sign |-> "", n |-> 0]
    /\ wis.overprediction = [sign |-> "", n |-> 0]
    /\ wis.underprediction = [sign |-> "", n |-> 0]
    /\ Exactly(wis.total, Abs(observed - median), 20)

\* C9 amended: calculateWIS can be called with no intervals, and the call
\* returns dispersion, overprediction and underprediction 0 and the total
\* 0.5 * |observed - median| written to one decimal place.
C9_EmptyIntervals ==
  /\ (pc = "input" /\ intervals = <<>>) => ENABLED CallWIS
  /\ (wis # NoResult /\ intervals = <<>>) =>
       /\ wis.dispersion = [sign |-> "", n |-> 0]
       /\ wis.overprediction = [sign |-> "", n |-> 0]
       /\ wis.underprediction = [sign |-> "", n |-> 0]
       /\ Rounds(wis.total, Abs(observed - median), 20)

\* a call with no intervals and a median off the observed value
C9_Witness ==
  /\ wis # NoResult
  /\ intervals = <<>>
  /\ observed # median
  /\ Num(wis.total) > 0

(* -------------------------------- C10 ---------------------------------- *)

IsWISResult(r) ==
  /\ DOMAIN r = {"total", "dispersion", "overprediction", "underprediction",
                 "absError"}
  /\ \A f \in DOMAIN r : r[f].sign \in {"", "-"} /\ r[f].n \in Nat

\* C10: a call of calculateWIS on a list with an interval whose lower > upper
\* returns a result with all five fields, and each such interval lowers the
\* dispersion accumulator (its dispersion term is negative).
C10_MalformedAccepted ==
  (pc # "input" /\ ~WellFormed) =>
    /\ IsWISResult(wis)
    /\ \A i \in DOMAIN intervals :
         intervals[i].lower > intervals[i].upper =>
           WISLoop(observed, intervals, i).dispersion
             < WISLoop(observed, intervals, i - 1).dispersion

\* a call with an interval whose lower > upper that returned a negative
\* dispersion
C10_Witness ==
  /\ wis # NoResult
  /\ Len(intervals) >= 1
  /\ intervals[1].lower > intervals[1].upper
  /\ wis.dispersion.sign = "-"
  /\ wis.dispersion.n > 0

(* -------------------------------- C11 ---------------------------------- *)

\* C11: whatever slider events the WIS panel has seen, observed is within
\* [1200, 2800] and width within [30, 150], both calls of calculatePIS have
\* alpha > 0, and every interval handed to calculateWIS or calculatePIS has
\* lower <= upper.
C11_SliderRanges ==
  /\ observed >= 12000 /\ observed <= 28000
  /\ width >= 30 /\ width <= 150
  /\ WellFormed
  /\ \A k \in DOMAIN PISCalls(observed, intervals) :
       LET c == PISCalls(observed, intervals)[k]
       IN  c.alpha > 0 /\ c.lower <= c.upper

\* both sliders at their lower end, the width slider moved last
C11_Witness ==
  /\ pc = "widthSet"
  /\ observed = 12000
  /\ width = 30
  /\ intervals[1].lower < intervals[1].upper

(* -------------------------------- C12 ---------------------------------- *)

\* C12: at every position of the width slider the WIS panel has the median
\* 2000 and exactly three intervals, the 95%, the 80% and the 50% one in this
\* order, each symmetric about the median, the 50% interval within the 80%
\* interval and the 80% interval within the 95% interval.
C12_NestedIntervals ==
  /\ median = 20000
  /\ Len(intervals) = 3
  /\ <<intervals[1].alpha, intervals[2].alpha, intervals[3].alpha>> = <<5, 20, 50>>
  /\ \A i \in 1..3 :
       median - intervals[i].lower = intervals[i].upper - median
  /\ \A i \in 1..2 :
       /\ intervals[i].lower <= intervals[i + 1].lower
       /\ intervals[i + 1].upper <= intervals[i].upper

\* the width slider moved to its upper end: the 95% interval is 1400..2600,
\* the 50% interval 1760..2240
C12_Witness ==
  /\ pc = "widthSet"
  /\ width = 150
  /\ intervals[1].lower = 14000 /\ intervals[1].upper = 26000
  /\ intervals[3].lower = 17600 /\ intervals[3].upper = 22400

(* -------------------------------- C13 ---------------------------------- *)

\* C13: whatever slider events the WIS panel has seen, the WIS result and the
\* two PIS results it holds are those of calculateWIS and calculatePIS for the
\* current observed value and the intervals of the current width.
C13_MemoNeverStale ==
  LET ivs == PanelIntervals(width)
  IN  /\ wis = calculateWIS(observed, 20000, ivs)
      /\ pis95 = calculatePIS(observed, ivs[1].lower, ivs[1].upper, 5)
      /\ pis50 = calculatePIS(observed, ivs[3].lower, ivs[3].upper, 50)

\* both sliders moved off their start, the width slider last, with the
\* observed value outside the 95% interval
C13_Witness ==
  /\ pc = "widthSet"
  /\ observed # defaultObserved
  /\ width # defaultWidth
  /\ pis95.penalty.n > 0
  /\ wis.dispersion # calculateWIS(observed, median, PanelIntervals(defaultWidth)).dispersion

(* -------------------------------- C14 ---------------------------------- *)

RoundsWhole(s, num, den) ==
  /\ s.sign = (IF num < 0 THEN "-" ELSE "")
  /\ s.n \in Nat
  /\ 2 * s.n * den - den <= 2 * Abs(num)
  /\ 2 * Abs(num) < 2 * s.n * den + den

\* the number of true flags of the bar
TrueFlags == Cardinality({i \in DOMAIN hits : hits[i]})

\* C15 as stated: the coverage shown for a list of flags is exactly
\* (number of true flags) / (number of flags) * 100.
C15_Original ==
  coverage # NoResult => Num(coverage.shown) * Len(hits) = 100 * TrueFlags

\* C15 amended: the coverage shown for a list of flags is
\* (number of true flags) / (number of flags) * 100 written as a whole number,
\* and 19 true flags of 20 show 95.
C15_CoverageShown ==
  coverage # NoResult =>
    /\ RoundsWhole(coverage.shown, 100 * TrueFlags, Len(hits))
    /\ (Len(hits) = 20 /\ TrueFlags = 19) => coverage.shown = [sign |-> "", n |-> 95]

\* a bar rendered with 11 flags, 7 of them true: 63.63... is shown as 64
C15_Witness ==
  /\ coverage # NoResult
  /\ Len(hits) = 11
  /\ TrueFlags = 7
  /\ coverage.shown.n = 64

(* -------------------------------- C16 ---------------------------------- *)

\* s is a one-decimal number at most half a tenth off num / den (den > 0)
Nearest(s, num, den) == 2 * Abs(Num(s) * den - 10 * num) <= den

\* the total that adding up the rounded components and rounding again gives
TotalOfRounded ==
  ToFixed1(2 * (Num(wis.dispersion) + Num(wis.overprediction)
                + Num(wis.underprediction)) + Num(wis.absError), 20)

\* C16: every field calculateWIS returns is at most half a tenth off the
\* unrounded quantity it stands for; in particular total is the rounding of the
\* unrounded dispersion + overprediction + underprediction + 0.5 * absError,
\* whatever the rounded components add up to.
C16_RoundedOnce ==
  wis # NoResult =>
    /\ Nearest(wis.dispersion, DispersionSum, 2000)
    /\ Nearest(wis.overprediction, OverSum, 2000)
    /\ Nearest(wis.underprediction, UnderSum, 2000)
    /\ Nearest(wis.absError, Abs(observed - median), 10)
    /\ Nearest(wis.total, DispersionSum + OverSum + UnderSum
                            + 100 * Abs(observed - median), 2000)

\* a call on well-formed intervals whose total is not what its rounded
\* components add up to
C16_Witness ==
  /\ wis # NoResult
  /\ WellFormed
  /\ Len(intervals) >= 1
  /\ wis.total # TotalOfRounded

(* -------------------------------- C17 ---------------------------------- *)

\* C17, the 'WIS Components' text: the overprediction component of the WIS
\* result the panel shows is charged exactly when the observed value is below
\* the lower bound of some interval, and the underprediction component exactly
\* when it is above the upper bound of some interval.
C17_ComponentsText ==
  /\ Num(wis.overprediction) > 0
       <=> \E i \in DOMAIN intervals : observed < intervals[i].lower
  /\ Num(wis.underprediction) > 0
       <=> \E i \in DOMAIN intervals : observed > intervals[i].upper

(* -------------------------------- C18 ---------------------------------- *)

\* the sum of the formula of the 'Technical details' panel over the current
\* intervals, in 1/2000ths: (u - l) * (alpha / 2) + 2 * (l - y) when y < l
\* + 2 * (y - u) when y > u
PanelFormulaSum ==
  SumFn([i \in DOMAIN intervals |->
           (intervals[i].upper - intervals[i].lower) * intervals[i].alpha
           + (IF observed < intervals[i].lower
              THEN 400 * (intervals[i].lower - observed) ELSE 0)
           + (IF observed > intervals[i].upper
              THEN 400 * (observed - intervals[i].upper) ELSE 0)],
        DOMAIN intervals)

\* C18, the 'Technical details: WIS formula' panel: the total the WIS panel
\* shows is (1 / K) times the sum of the formula over its K intervals, written
\* to one decimal place.
C18_FormulaPanel ==
  Rounds(wis.total, PanelFormulaSum, 2000 * Len(intervals))

(* -------------------------------- C19 ---------------------------------- *)

\* what one interval adds to the accumulators of calculateWIS, in 1/2000ths:
\* its dispersion term plus its over- or underprediction term
Contribution(obs, iv) ==
  LET acc == WISStep([dispersion |-> 0, overprediction |-> 0,
                      underprediction |-> 0], obs, iv)
  IN  acc.dispersion + acc.overprediction + acc.underprediction

\* C19: for a well-formed interval, what it adds to calculateWIS is
\* (alpha / 2) times the total calculatePIS returns for the same observed,
\* lower, upper and alpha (up to the rounding of that total to one decimal).
C19_ThroughPIS ==
  (pis # NoResult /\ lower <= upper) =>
    2 * Abs(Contribution(observed, [lower |-> lower, upper |-> upper,
                                    alpha |-> alpha])
            - Num(pis.total) * alpha) <= alpha

(* -------------------------------- C20 ---------------------------------- *)

\* C20: whatever slider events the WIS panel has seen, it shows exactly one of
\* its four status messages.
C20_OneStatusMessage ==
  Cardinality(StatusMessages(observed, intervals)) = 1

\* the observed slider moved onto the lower bound of the 95% interval: the
\* panel shows that the value is within the 95% interval but outside the 50%
C20_Witness ==
  /\ pc = "observedSet"
  /\ observed = intervals[1].lower
  /\ StatusMessages(observed, intervals) = {"within 95% PI but outside 50%"}

(* -------------------------------- C21 ---------------------------------- *)

\* C21 as stated: for any call of calculatePIS, lower > upper included,
\* inside is true exactly when neither outsideLower nor outsideUpper is, the
\* penalty returned is 0 exactly when inside is true, and outsideLower and
\* outsideUpper are both true only when lower > upper, the penalty then being
\* (2 / alpha) * (lower - observed).
C21_Original ==
  pis # NoResult =>
    /\ pis.inside <=> (~pis.outsideLower /\ ~pis.outsideUpper)
    /\ Num(pis.penalty) = 0 <=> pis.inside
    /\ (pis.outsideLower /\ pis.outsideUpper) =>
         /\ lower > upper
         /\ Rounds(pis.penalty, 20 * (lower - observed), alpha)

\* C21 amended: for any call of calculatePIS, lower > upper included, inside
\* is true exactly when neither outsideLower nor outsideUpper is; the penalty
\* before rounding is 0 exactly when inside is true, so the penalty returned
\* is 0.0 whenever inside is true, and otherwise 0.0 only when
\* (2 / alpha) * distance is below 0.05; outsideLower and outsideUpper are both
\* true only when lower > upper, the penalty then being that of the lower
\* bound, (2 / alpha) * (lower - observed), to one decimal place.
C21_FlagsAndPenalty ==
  pis # NoResult =>
    LET distance == IF observed < lower THEN lower - observed
                    ELSE IF observed > upper THEN observed - upper
                    ELSE 0
    IN  /\ pis.inside <=> (~pis.outsideLower /\ ~pis.outsideUpper)
        /\ distance = 0 <=> pis.inside
        /\ Rounds(pis.penalty, 20 * distance, alpha)
        /\ pis.inside => pis.penalty = [sign |-> "", n |-> 0]
        /\ (~pis.inside /\ Num(pis.penalty) = 0) => 400 * distance < alpha
        /\ (pis.outsideLower /\ pis.outsideUpper) =>
             /\ lower > upper
             /\ Rounds(pis.penalty, 20 * (lower - observed), alpha)

\* a call with lower > upper and the observed value between the two: both
\* outside flags are true and the penalty is that of the lower bound
C21_Witness ==
  /\ pis # NoResult
  /\ lower > upper
  /\ pis.outsideLower /\ pis.outsideUpper
  /\ ~pis.inside
  /\ Num(pis.penalty) > 0

(* -------------------------------- C22 ---------------------------------- *)

\* C22: whatever slider events the WIS panel has seen, at most one of the
\* overprediction and underprediction components it shows is not zero, and
\* both are zero whenever the observed value lies inside the 50% interval.
C22_OneSidedPenalty ==
  /\ ~(Num(wis.overprediction) # 0 /\ Num(wis.underprediction) # 0)
  /\ (observed >= intervals[3].lower /\ observed <= intervals[3].upper) =>
       /\ wis.overprediction = [sign |-> "", n |-> 0]
       /\ wis.underprediction = [sign |-> "", n |-> 0]

\* the observed slider moved above the 95% interval at a width other than
\* the default: overprediction is shown, underprediction is 0.0
C22_Witness ==
  /\ pc = "observedSet"
  /\ width # defaultWidth
  /\ observed > intervals[1].upper
  /\ Num(wis.overprediction) > 0
  /\ wis.underprediction = [sign |-> "", n |-> 0]

(* -------------------------------- C23 ---------------------------------- *)

\* a step that moves the observed value no nearer to the median, on the side
\* of the median it is on, at the same width
MovesAway ==
  /\ width' = width
  /\ \/ observed >= median /\ observed' >= observed
     \/ observed <= median /\ observed' <= observed

\* C23: in the WIS panel, at any fixed width, the unrounded total (dispersion
\* + overprediction + underprediction + 0.5 * absError before toFixed) does not
\* decrease when the observed value moves away from the median in either
\* direction; it is never below the dispersion and is the dispersion alone at
\* observed = median.
C23_MovingAway ==
  [][LET next == AccTotalNext
         disp == AccNext.dispersion
     IN  /\ next >= disp
         /\ observed' = median' => next = disp
         /\ MovesAway => next >= AccTotal]_vars

\* the observed slider moved below the 95% interval at a width other than the
\* default: the unrounded total is above the dispersion by more than half the
\* absolute error
C23_Witness ==
  /\ pc = "observedSet"
  /\ width # defaultWidth
  /\ observed < intervals[1].lower
  /\ AccTotal > Acc.dispersion + HalfAbsError

(* -------------------------------- C24 ---------------------------------- *)

\* C24: whatever the sliders and the Regenerate button did before, a switch
\* to the WIS tab shows the WIS panel with observed = 2000 and width = 100, and
\* a switch to the Coverage tab shows the Coverage panel with sampleSize = 20
\* and seed = 0.
C24_PanelStateLocal ==
  [][activeTab' # activeTab =>
       /\ activeTab' = "wis" => (observed' = 20000 /\ width' = 100)
       /\ activeTab' = "coverage" => (sampleSize' = 20 /\ seed' = 0)]_vars

\* the WIS panel shown again after it was left with a slider off its default:
\* observed is 2000, width 100 and the total 156.0
C24_Witness ==
  /\ activeTab = "wis"
  /\ pc = "wisRemounted"
  /\ observed = 20000
  /\ width = 100
  /\ wis.total = [sign |-> "", n |-> 1560]

====
